---- MODULE Spec2Model ----
(***************************************************************************)
(* Product-state document, permission gate, external writers and state     *)
(* mutators of the capsule import pipeline.                                *)
(*                                                                         *)
(* The product-state document is the JSON file                             *)
(* capsules/{capsule}/state/product_state_{capsule}.json.  Every script    *)
(* starts by loading it, so the initial state of a specification is the    *)
(* document as found on disk: a seeded document (seed_state) whose         *)
(* operator-owned fields (promotion.stage, promotion.locked,               *)
(* import.eligible, legacy allowed_actions) may have been set by hand.     *)
(*                                                                         *)
(* JSON null and an absent key are both written None.  Timestamps are      *)
(* natural numbers; 0 is the null timestamp and `clock` is the time of     *)
(* the next run.                                                           *)
(***************************************************************************)
EXTENDS Integers, Sequences, FiniteSets, TLC

VARIABLES
    products,        \* state["products"]: handle -> record
    decision,        \* outcome of the last StateGate.can call
    gateLog,         \* StateGate.can calls that returned a GateDecision
    externalWrites,  \* catalog writes issued through ShopifyClient
    clock,           \* time of the next run
    lastRun,         \* the mutator run that produced `products`, with its inputs
    prev,            \* state["products"] as loaded by that run
    swatchJsonl,     \* outputs/actions_swatch_queue_{capsule}.jsonl
    swatchQueue,     \* outputs/actions_swatch_queue_{capsule}.json
    manualQueue,     \* outputs/actions_manual_review_{capsule}.json
    driftLog,        \* outputs/asset_drift_{capsule}.json
    generated_at,    \* state["generated_at"]
    preflight,       \* results of run_preflight, by handle (the preflight report)
    stateFile        \* state/product_state_{capsule}.json: existence and top-level keys

vars == <<products, decision, gateLog, externalWrites, clock, lastRun, prev,
          swatchJsonl, swatchQueue, manualQueue, driftLog, generated_at, preflight, stateFile>>

None == "None"

\* The handles of the capsule document.
Handles == {"A", "B"}

\* A handle that is not a key of the document.
UnknownHandles == {"Z"}

\* Number of mutator runs a behaviour may contain.
MaxRuns == 2

----------------------------------------------------------------------------
(* Action vocabulary *)

SUPPORTED_ACTIONS ==
    {"include_in_import_csv", "image_upsert", "metafield_write", "collection_write"}

\* The keys seed_state writes into allowed_actions.
ActionVocabulary ==
    {"metafield_write", "image_upsert", "collection_write",
     "include_in_import_csv", "size_guide_write"}

\* Action names a caller may pass that belong to no vocabulary.
ForeignActions == {"publish"}

\* dict.get(key, False) on the entries of an allowed_actions map
Get(entries, key) == IF key \in DOMAIN entries THEN entries[key] ELSE FALSE

\* d[key] = value on a dict
Put(entries, key, value) ==
    [k \in (DOMAIN entries) \cup {key} |-> IF k = key THEN value ELSE entries[k]]

\* the empty dict
EmptyMap == [k \in {} |-> FALSE]

\* Python truthiness of a JSON scalar held as a string
Truthy(v) == v \notin {None, "false", ""}

----------------------------------------------------------------------------
(* StateGate (utils/state_gate.py) *)

\* GateDecision, or the exception StateGate.can raised
GateDecision(handle, action, allowed, reason, snapshot) ==
    [kind |-> "GateDecision", handle |-> handle, action |-> action,
     allowed |-> allowed, reason |-> reason, state_snapshot |-> snapshot]

Raised(exception, handle, action) ==
    [kind |-> exception, handle |-> handle, action |-> action,
     allowed |-> FALSE, reason |-> None,
     state_snapshot |-> [current_stage |-> None, preflight_status |-> None,
                         image_state |-> None]]

NoDecision == Raised("none", None, None)

\* snapshot built from the record's flat keys
Snapshot(product) ==
    [current_stage |-> product.current_stage,
     preflight_status |-> product.preflight_status,
     image_state |-> product.image_state]

\* PrimaryRule with a missing entry counted as granted
PrimaryRule_default_true(product, action) ==
    IF action \in DOMAIN product.allowed_actions.entries
    THEN product.allowed_actions.entries[action]
    ELSE TRUE

\* PrimaryRule with the ws_buy flag vetoing the stored value
PrimaryRule_ws_buy(product, action) ==
    Get(product.allowed_actions.entries, action) /\ ~Truthy(product.ws_buy)

\* allowed = bool(allowed_actions.get(action, False))
PrimaryRule(product, action) ==
    Get(product.allowed_actions.entries, action)

_derive_reason(product, action) ==
    IF Truthy(product.ws_buy) THEN "ws_buy=true"
    ELSE IF Truthy(product.preflight_status) /\ product.preflight_status # "GO"
         THEN "preflight_status=" \o product.preflight_status
    ELSE IF action = "image_upsert" /\ Truthy(product.image_state)
         THEN "image_state=" \o product.image_state
    ELSE "allowed_actions." \o action \o "=false"

\* StateGate.can(handle=..., action=...) on the loaded document
can(handle, action) ==
    IF action \notin SUPPORTED_ACTIONS THEN Raised("ValueError", handle, action)
    ELSE IF handle \notin DOMAIN products THEN Raised("KeyError", handle, action)
    ELSE LET product == products[handle] IN
         IF ~product.allowed_actions.is_dict
         THEN GateDecision(handle, action, FALSE, "allowed_actions_missing",
                           Snapshot(product))
         ELSE LET allowed == PrimaryRule(product, action) IN
              GateDecision(handle, action, allowed,
                           IF allowed THEN None ELSE _derive_reason(product, action),
                           Snapshot(product))

----------------------------------------------------------------------------
(* seed_product_state_from_preflight.py *)

\* cpi of each handle (derive_cpi of its product_id tag): style-color
CpiOf == [A |-> "1008-000182", B |-> "2040-000517"]

\* (status, image_status) pairs of preflight_product results
PreflightOutcomes ==
    { <<"GO", "IMAGE_READY">>, <<"NO-GO", "IMAGE_INCOMPLETE">>, <<"SKIP", "N/A">> }

\* one entry of preflight_data["products"]; preflight_product writes no ws_buy key
PreflightProduct(handle, outcome) ==
    [handle |-> handle, cpi |-> CpiOf[handle], status |-> outcome[1],
     image_status |-> outcome[2], ws_buy |-> None]

NoSwatch == [present |-> FALSE, file_path |-> None, registered_at |-> 0]

\* state_entry of seed_state for one preflight product
seed_state(product) ==
    [handle |-> product.handle,
     cpi |-> product.cpi,
     tags |-> {},
     preflight |-> [status |-> product.status, image_status |-> product.image_status],
     import |-> [eligible |-> ~Truthy(product.ws_buy),
                 imported |-> FALSE,
                 imported_at |-> 0,
                 import_source |-> None,
                 anomaly_accepted |-> FALSE],
     promotion |-> [stage |-> "PRE_FLIGHT", locked |-> FALSE, last_transition_at |-> 0],
     overrides |-> [manual_go |-> FALSE, notes |-> ""],
     allowed_actions |->
        [is_dict |-> TRUE,
         entries |->
            [metafield_write |-> product.status = "GO",
             image_upsert |-> (product.status = "GO"
                               /\ product.image_status \in {"IMAGE_READY", "IMAGE_MINIMAL"}),
             collection_write |-> TRUE,
             include_in_import_csv |-> product.status \in {"GO", "NO-GO"},
             size_guide_write |-> TRUE]],
     assets |-> [swatch |-> NoSwatch, swatch_image |-> FALSE, look_images |-> <<>>],
     assets_provenance |-> None,
     audit |-> <<>>,
     product_gid |-> None,
     ws_buy |-> None,
     preflight_status |-> None,
     image_state |-> None,
     current_stage |-> None]

derive_allowed_actions(record) ==
    IF record.promotion.locked
    THEN [metafield_write |-> FALSE, image_upsert |-> FALSE,
          collection_write |-> FALSE, size_guide_write |-> FALSE]
    ELSE IF record.promotion.stage = "IMPORTED"
    THEN [metafield_write |-> TRUE, image_upsert |-> record.overrides.manual_go,
          collection_write |-> TRUE, size_guide_write |-> TRUE]
    ELSE [metafield_write |-> FALSE, image_upsert |-> FALSE,
          collection_write |-> TRUE, size_guide_write |-> TRUE]

----------------------------------------------------------------------------
(* scripts/preflight_s226.py *)

\* most ghost images, and most non-ghost images, found for a product
MaxImages == 2

\* outcomes of the readiness checks that only warn: the masterfile column the
\* details come from, the body source, the season code, the category code
\* (with the knitwear fallback) and the colour cross-check
SoftChecks ==
    { [details |-> "PRODUCT_DETAILS", body |-> "BODY_HTML", season_code_valid |-> TRUE,
       category |-> "KNOWN", colour |-> "MATCH"],
      [details |-> "TEXTILE_PARSED", body |-> "NONE", season_code_valid |-> TRUE,
       category |-> "KNIT_KNOWN", colour |-> "MATCH"],
      [details |-> "FABRIC_UNPARSED", body |-> "NONE", season_code_valid |-> FALSE,
       category |-> "KNIT_UNKNOWN", colour |-> "MISMATCH"] }

\* a well-formed Shopify group with its masterfile row and image files
FullGroups ==
    { [parent_rows |-> 1, ws_buy |-> FALSE, product_id |-> "ok", in_master |-> TRUE,
       variant_price_present |-> row[1], soft |-> row[2],
       ghost_count |-> gc, hero_count |-> IF ng > 0 THEN 1 ELSE 0,
       model_count |-> IF ng > 0 THEN ng - 1 ELSE 0, editorial_count |-> 0,
       child_row_count |-> 1] :
      row \in { r \in BOOLEAN \X SoftChecks : r[1] \/ ~r[2].season_code_valid },
      gc \in 0..MaxImages, ng \in 0..MaxImages }

\* groups that one of the early checks of preflight_product rejects or skips
EarlyGroups ==
    LET ok == CHOOSE g \in FullGroups :
                 /\ g.variant_price_present
                 /\ g.soft.details = "PRODUCT_DETAILS"
                 /\ g.ghost_count = 1 /\ g.hero_count = 1 /\ g.model_count = 0
    IN  { [ok EXCEPT !.parent_rows = 0],
          [ok EXCEPT !.parent_rows = 2],
          [ok EXCEPT !.ws_buy = TRUE],
          [ok EXCEPT !.ws_buy = TRUE, !.product_id = "missing"],
          [ok EXCEPT !.ws_buy = TRUE, !.in_master = FALSE],
          [ok EXCEPT !.ws_buy = TRUE, !.parent_rows = 0],
          [ok EXCEPT !.product_id = "missing"],
          [ok EXCEPT !.product_id = "malformed"],
          [ok EXCEPT !.in_master = FALSE] }

\* one ghost file, one hero file and a group of three rows (parent and two
\* variant rows), everything else in order
ScenarioGroups ==
    { [parent_rows |-> 1, ws_buy |-> FALSE, product_id |-> "ok", in_master |-> TRUE,
       variant_price_present |-> TRUE,
       soft |-> CHOOSE c \in SoftChecks : c.details = "PRODUCT_DETAILS",
       ghost_count |-> 1, hero_count |-> 1, model_count |-> 0, editorial_count |-> 0,
       child_row_count |-> 2] }

Groups == FullGroups \cup EarlyGroups \cup ScenarioGroups

\* the result dict preflight_product starts from
NewResult(handle) ==
    [handle |-> handle, product_id |-> None, cpi |-> None, status |-> "GO",
     errors |-> <<>>, warnings |-> <<>>,
     ghost_count |-> 0, hero_count |-> 0, model_count |-> 0, editorial_count |-> 0,
     total_images |-> 0, child_row_count |-> 0, model_overflow_required |-> 0,
     image_status |-> None, client_recommendation |-> None]

NoResult == [handle |-> None]

NoPreflight == [h \in Handles |-> NoResult]

Hold(result, error) ==
    [result EXCEPT !.errors = Append(@, error), !.status = "NO-GO",
                   !.client_recommendation = "Hold - investigate"]

Range(seq) == { seq[i] : i \in 1..Len(seq) }

When(cond, line) == IF cond THEN << line >> ELSE <<>>

\* the warnings of the details, body, season, category and colour checks
soft_warnings(soft) ==
    When(soft.details = "TEXTILE_UNPARSED",
         "Textile Content present but could not parse percentages")
    \o When(soft.details = "FABRIC_UNPARSED",
            "Fabric Content present but could not parse percentages")
    \o When(soft.details = "NONE", "No content for Details metafield")
    \o When(soft.body = "NONE", "No Body (HTML) or Product Description")
    \o When(~soft.season_code_valid, "Invalid or missing SEASON CODE")
    \o When(soft.category = "KNIT_UNKNOWN", "Unknown KNIT CATEGORY CODE")
    \o When(soft.category = "UNKNOWN", "Unknown CATEGORY CODE")
    \o When(soft.colour = "MISMATCH", "Colour mismatch between Product ID and masterfile")
    \o When(soft.colour = "MISSING", "Missing Colour")

\* planned_positions: ghost at 1, then the non-ghost images from 2
PlannedPositions(non_ghost_count) ==
    << 1 >> \o [i \in 1..non_ghost_count |-> i + 1]

valid_positions_gaps_pass(planned_positions) ==
    /\ planned_positions # <<>>
    /\ planned_positions[1] = 1
    /\ Len(planned_positions)
          = Cardinality({ planned_positions[i] : i \in 1..Len(planned_positions) })

\* valid_positions: the plan is non-empty, starts at 1, has no repeated
\* position and each position is the previous plus 1
valid_positions(planned_positions) ==
    /\ planned_positions # <<>>
    /\ planned_positions[1] = 1
    /\ Len(planned_positions)
          = Cardinality({ planned_positions[i] : i \in 1..Len(planned_positions) })
    /\ \A i \in 2..Len(planned_positions) :
          planned_positions[i] = planned_positions[i - 1] + 1

decide_status_warnings_count(result) ==
    IF result.errors # <<>> \/ Len(result.warnings) > 1 THEN "NO-GO" ELSE "GO"

\* status of a result that reached the end of preflight_product
decide_status(result) ==
    IF result.errors # <<>> THEN "NO-GO" ELSE "GO"

recommend_upload_first(result) ==
    IF result.status = "GO" THEN "Upload"
    ELSE IF result.status = "NO-GO" /\ "Missing ghost image" \in Range(result.errors)
    THEN "Hold - ghost image required"
    ELSE IF result.image_status = "IMAGE_INVALID" THEN "Hold - investigate"
    ELSE IF result.image_status = "IMAGE_MINIMAL" THEN "Upload (minimal imagery)"
    ELSE "Hold - investigate"

\* client_recommendation of a result whose status and image_status are decided
recommend(result) ==
    IF result.status = "NO-GO" /\ "Missing ghost image" \in Range(result.errors)
    THEN "Hold - ghost image required"
    ELSE IF result.image_status = "IMAGE_INVALID" THEN "Hold - investigate"
    ELSE IF result.image_status = "IMAGE_MINIMAL" THEN "Upload (minimal imagery)"
    ELSE IF result.status = "GO" THEN "Upload"
    ELSE "Hold - investigate"

image_status_ghost_first(result, invalid_position_error) ==
    LET non_ghost_count ==
            result.hero_count + result.model_count + result.editorial_count
    IN  IF result.ghost_count = 0 \/ result.total_images = 0 THEN "IMAGE_INCOMPLETE"
        ELSE IF invalid_position_error THEN "IMAGE_INVALID"
        ELSE IF result.ghost_count >= 1 /\ non_ghost_count = 0 THEN "IMAGE_MINIMAL"
        ELSE IF result.ghost_count >= 1 /\ non_ghost_count >= 1 THEN "IMAGE_READY"
        ELSE "IMAGE_INCOMPLETE"

\* image_status from the position error and the classification counts
image_status_of(result, invalid_position_error) ==
    LET non_ghost_count ==
            result.hero_count + result.model_count + result.editorial_count
    IN  IF invalid_position_error THEN "IMAGE_INVALID"
        ELSE IF result.ghost_count = 0 \/ result.total_images = 0 THEN "IMAGE_INCOMPLETE"
        ELSE IF result.ghost_count >= 1 /\ non_ghost_count = 0 THEN "IMAGE_MINIMAL"
        ELSE IF result.ghost_count >= 1 /\ non_ghost_count >= 1 THEN "IMAGE_READY"
        ELSE "IMAGE_INCOMPLETE"

\* the end of preflight_product: position check, image_status, status and
\* client recommendation, for the plan planned_positions
check_positions(result, planned_positions) ==
    LET invalid_position_error == ~valid_positions(planned_positions)
        checked ==
            [result EXCEPT
                !.errors = @ \o When(invalid_position_error, "Invalid image position plan"),
                !.image_status = image_status_of(result, invalid_position_error)]
        decided == [checked EXCEPT !.status = decide_status(checked)]
    IN  [decided EXCEPT !.client_recommendation = recommend(decided)]

\* the result before the position check, for a group that passed the early checks
analysed(handle, group) ==
    LET non_ghost_count == group.hero_count + group.model_count + group.editorial_count
        model_overflow_required ==
            IF non_ghost_count > group.child_row_count
            THEN non_ghost_count - group.child_row_count ELSE 0
    IN  [NewResult(handle) EXCEPT
            !.product_id = "ok",
            !.cpi = CpiOf[handle],
            !.errors = When(~group.variant_price_present, "Missing Variant Price")
                       \o When(group.ghost_count = 0, "Missing ghost image"),
            !.warnings = soft_warnings(group.soft)
                         \o When(model_overflow_required > 0, "Image overflow")
                         \o When(group.ghost_count > 1, "Multiple ghost images found"),
            !.ghost_count = group.ghost_count,
            !.hero_count = group.hero_count,
            !.model_count = group.model_count,
            !.editorial_count = group.editorial_count,
            !.total_images = group.ghost_count + non_ghost_count,
            !.child_row_count = group.child_row_count,
            !.model_overflow_required = model_overflow_required]

\* preflight_product(handle, group_df, master_df, ghost_files, model_files)
preflight_product(handle, group) ==
    IF group.parent_rows = 0 THEN Hold(NewResult(handle), "Missing parent row")
    ELSE IF group.parent_rows > 1 THEN Hold(NewResult(handle), "Multiple parent rows")
    ELSE IF group.ws_buy
    THEN [NewResult(handle) EXCEPT
            !.status = "SKIP",
            !.client_recommendation = "Wholesale only - excluded from DTC",
            !.image_status = "N/A",
            !.warnings = << "Wholesale product (WS Buy) - skipped" >>]
    ELSE IF group.product_id = "malformed"
    THEN Hold(NewResult(handle), "Malformed Product ID tag")
    ELSE IF group.product_id = "missing"
    THEN Hold(NewResult(handle), "Missing Product ID tag")
    ELSE IF ~group.in_master
    THEN Hold([NewResult(handle) EXCEPT !.product_id = "ok", !.cpi = CpiOf[handle]],
              "Product ID not found in masterfile")
    ELSE check_positions(
            analysed(handle, group),
            PlannedPositions(group.hero_count + group.model_count + group.editorial_count))

\* one iteration of the loop of run_preflight: the group of `handle` is checked
\* and its result stored
RunPreflight(handle, group) ==
    /\ preflight' = [preflight EXCEPT ![handle] = preflight_product(handle, group)]
    /\ lastRun' = [op |-> "preflight_product", handle |-> handle, group |-> group,
                   planned_positions |->
                       PlannedPositions(group.hero_count + group.model_count
                                          + group.editorial_count)]
    /\ UNCHANGED <<stateFile, products, decision, gateLog, externalWrites, clock, prev,
                   swatchJsonl, swatchQueue, manualQueue, driftLog, generated_at>>

----------------------------------------------------------------------------
(* Loading state/product_state_{capsule}.json *)

\* the file as written by the seeding script
GoodFile == [exists |-> TRUE, schema_version |-> "1.0", products_kind |-> "dict"]

MissingStateFile == [exists |-> FALSE, schema_version |-> None, products_kind |-> "missing"]

\* files an operation may find: none, the seeded file, and files whose
\* schema_version is absent or of another version or whose top-level
\* "products" is absent or a non-empty list instead of an object
StateFiles ==
    { MissingStateFile } \cup
    { [exists |-> TRUE, schema_version |-> sv, products_kind |-> pk] :
        sv \in {"1.0", None, "2.0"}, pk \in {"dict", "missing", "list"} }

Loaders ==
    {"state_gate", "promote_static_allowed_actions", "register_created_swatches",
     "reconcile_capsule_assets", "post_import_infer_state", "sync_product_gids"}

load_error_missing_file_ignored(op, file) ==
    IF op = "state_gate"
    THEN IF ~file.exists THEN "FileNotFoundError"
         ELSE IF file.products_kind = "missing" THEN "ValueError"
         ELSE IF file.products_kind = "list" THEN "AttributeError"
         ELSE None
    ELSE IF op = "post_import_infer_state"
    THEN IF ~file.exists THEN "FileNotFoundError"
         ELSE IF file.schema_version # "1.0" THEN "ValueError"
         ELSE IF file.products_kind # "dict" THEN "ValueError"
         ELSE None
    ELSE IF file.exists /\ file.products_kind = "list" THEN "AttributeError"
         ELSE None

\* the exception an operation raises before it writes anything, for the file
\* it finds: StateGate.__init__ (and the first can(), for a products list),
\* main of post_import_infer_state, and load_product_state / load_json and the
\* products loop of the other four scripts
load_error(op, file) ==
    IF op = "state_gate"
    THEN IF ~file.exists THEN "FileNotFoundError"
         ELSE IF file.products_kind = "missing" THEN "ValueError"
         ELSE IF file.products_kind = "list" THEN "AttributeError"
         ELSE None
    ELSE IF op = "post_import_infer_state"
    THEN IF ~file.exists THEN "FileNotFoundError"
         ELSE IF file.schema_version # "1.0" THEN "ValueError"
         ELSE IF file.products_kind # "dict" THEN "ValueError"
         ELSE None
    ELSE IF ~file.exists THEN "FileNotFoundError"
         ELSE IF file.products_kind = "list" THEN "AttributeError"
         ELSE None

\* the operation gets past loading and has a products object to work on
Loads(op) ==
    load_error(op, stateFile) = None /\ stateFile.products_kind = "dict"

\* the files a script writes when state.get("products", {}) gives {}
empty_run_writes(op) ==
    IF op = "register_created_swatches"
    THEN {"product_state", "actions_swatch_queue.jsonl"}
    ELSE IF op = "reconcile_capsule_assets"
    THEN {"asset_drift.json", "actions_swatch_queue.json", "actions_manual_review.json"}
    ELSE {"product_state"}

\* a run that raises while loading: nothing is written
AbortedRun(op) ==
    /\ load_error(op, stateFile) # None
    /\ lastRun' = [op |-> op, raised |-> load_error(op, stateFile), wrote |-> {}]
    /\ UNCHANGED <<stateFile, preflight, products, decision, gateLog, externalWrites,
                   clock, prev, swatchJsonl, swatchQueue, manualQueue, driftLog,
                   generated_at>>

\* a run of a script that does not miss the products object: it loops over
\* no product and writes its files back
EmptyRun(op) ==
    /\ op # "state_gate"
    /\ load_error(op, stateFile) = None
    /\ stateFile.products_kind = "missing"
    /\ lastRun' = [op |-> op, raised |-> None, wrote |-> empty_run_writes(op)]
    /\ UNCHANGED <<stateFile, preflight, products, decision, gateLog, externalWrites,
                   clock, prev, swatchJsonl, swatchQueue, manualQueue, driftLog,
                   generated_at>>

----------------------------------------------------------------------------
(* Documents a StateGate may be constructed on *)

SeededRecords(handle) ==
    { seed_state(PreflightProduct(handle, o)) : o \in PreflightOutcomes }

\* allowed_actions values found in documents: seeded maps, maps rebuilt by
\* derive_allowed_actions, the empty map, and a value that is not a dict
GateMaps(handle) ==
    { r.allowed_actions : r \in SeededRecords(handle) }
    \cup { [is_dict |-> TRUE,
            entries |-> derive_allowed_actions(
                [promotion |-> [stage |-> st, locked |-> lk],
                 overrides |-> [manual_go |-> mg]])] :
           st \in {"PRE_FLIGHT", "IMPORTED"}, lk \in BOOLEAN, mg \in BOOLEAN }
    \cup { [is_dict |-> TRUE, entries |-> EmptyMap], [is_dict |-> FALSE, entries |-> EmptyMap] }

\* values of the fields the gate reads for its reason and snapshot, and of notes
DiagnosticFields ==
    { [ws_buy |-> None, preflight_status |-> None, image_state |-> None, notes |-> ""],
      [ws_buy |-> "true", preflight_status |-> "GO", image_state |-> None, notes |-> ""],
      [ws_buy |-> None, preflight_status |-> "NO-GO", image_state |-> None, notes |-> "hold"],
      [ws_buy |-> None, preflight_status |-> "GO", image_state |-> "IMAGE_INCOMPLETE", notes |-> ""],
      [ws_buy |-> "false", preflight_status |-> None, image_state |-> "IMAGE_READY", notes |-> "checked"] }

GateRecords(handle) ==
    { [seed_state(PreflightProduct(handle, <<"GO", "IMAGE_READY">>)) EXCEPT
          !.allowed_actions = m,
          !.ws_buy = d.ws_buy,
          !.preflight_status = d.preflight_status,
          !.image_state = d.image_state,
          !.overrides.notes = d.notes] :
      m \in GateMaps(handle), d \in DiagnosticFields }

NoRun == [op |-> "none"]

InitGate ==
    /\ products \in { f \in [Handles -> UNION { GateRecords(h) : h \in Handles }] :
                        \A h \in Handles : f[h].handle = h }
    /\ decision = NoDecision
    /\ preflight = NoPreflight
    /\ stateFile = GoodFile
    /\ gateLog = {}
    /\ externalWrites = {}
    /\ clock = 1
    /\ lastRun = NoRun
    /\ prev = products
    /\ swatchJsonl = <<>>
    /\ swatchQueue = <<>>
    /\ manualQueue = <<>>
    /\ driftLog = <<>>
    /\ generated_at = 0

\* a caller evaluates gate.can(handle=handle, action=action); the gate is read-only
Can(handle, action) ==
    /\ Loads("state_gate")
    /\ decision' = can(handle, action)
    /\ UNCHANGED <<stateFile, preflight, products, gateLog, externalWrites, clock, lastRun, prev,
                   swatchJsonl, swatchQueue, manualQueue, driftLog, generated_at>>

NextGate ==
    \E handle \in Handles \cup UnknownHandles,
       action \in ActionVocabulary \cup ForeignActions :
        Can(handle, action)

SpecGate == InitGate /\ [][NextGate]_vars

----------------------------------------------------------------------------
(* Gate claims *)

\* the record a returned decision was taken on
Queried == products[decision.handle]

\* C1: for every record and every supported action StateGate.can returns a
\* decision whose allowed is the value stored at allowed_actions[action], false
\* when the entry is absent; a record without an allowed_actions map is denied
\* with reason "allowed_actions_missing"; a granted decision has no reason.
C1_AllowedIsStoredValue ==
    /\ (decision.handle \in Handles /\ decision.action \in SUPPORTED_ACTIONS)
          => decision.kind = "GateDecision"
    /\ decision.kind = "GateDecision" =>
          /\ Queried.allowed_actions.is_dict =>
                decision.allowed =
                    (/\ decision.action \in DOMAIN Queried.allowed_actions.entries
                     /\ Queried.allowed_actions.entries[decision.action])
          /\ ~Queried.allowed_actions.is_dict =>
                (~decision.allowed /\ decision.reason = "allowed_actions_missing")
          /\ decision.allowed => decision.reason = None

\* a query for an action the record's map has no entry for was denied
C1_Witness ==
    /\ decision.kind = "GateDecision"
    /\ Queried.allowed_actions.is_dict
    /\ decision.action \notin DOMAIN Queried.allowed_actions.entries
    /\ ~decision.allowed
    /\ decision.reason # None

\* C2: StateGate.can returns a decision for each of the five actions of the
\* vocabulary, raises the unsupported-action error (ValueError) exactly for
\* actions outside it, and raises the unknown-handle error (KeyError) for a
\* handle that is not in the document.
C2_FiveActionsAccepted ==
    decision.kind # "none" =>
        /\ (decision.kind = "ValueError") <=> (decision.action \notin ActionVocabulary)
        /\ (decision.action \in ActionVocabulary /\ decision.handle \notin DOMAIN products)
              => decision.kind = "KeyError"
        /\ (decision.action \in ActionVocabulary /\ decision.handle \in DOMAIN products)
              => decision.kind = "GateDecision"

\* C3: two records with the same allowed_actions map get the same allowed for
\* every action, whatever their ws_buy, preflight status, image state and notes
\* are; the reason reconstructed for a denial has no influence on allowed.
C3_GatePurity ==
    /\ \A h1 \in Handles, h2 \in Handles, a \in SUPPORTED_ACTIONS :
          products[h1].allowed_actions = products[h2].allowed_actions
             => can(h1, a).allowed = can(h2, a).allowed
    /\ decision.kind = "GateDecision" =>
          \A h \in Handles :
             products[h].allowed_actions = Queried.allowed_actions
                => can(h, decision.action).allowed = decision.allowed

\* a denial was returned for a record while another record with the same map
\* and different diagnostic fields gets a different reason and the same allowed
C3_Witness ==
    /\ decision.kind = "GateDecision"
    /\ ~decision.allowed
    /\ \E h \in Handles \ {decision.handle} :
          /\ products[h].allowed_actions = Queried.allowed_actions
          /\ products[h].ws_buy # Queried.ws_buy
          /\ products[h].overrides.notes # Queried.overrides.notes
          /\ can(h, decision.action).reason # decision.reason
          /\ can(h, decision.action).allowed = decision.allowed

----------------------------------------------------------------------------
(* External writers: api/metafields_writer.py, api/size_guide_writer.py,    *)
(* api/smart_collections.py.  A catalog write is a ShopifyClient mutation   *)
(* (upload_file_from_path, set_product_metafield, create_smart_collection). *)
(* The writers' local result logs are not part of the catalog and are left  *)
(* out.                                                                     *)

\* style_ tag merged into each record by enrich_product_state_with_tags
StyleOf == [A |-> "style_Harold_Sweater", B |-> "style_Askania_Coat"]

Cpis == { CpiOf[h] : h \in Handles }

\* documents the writers run on: seeded records, possibly re-derived as locked,
\* with their style tag and possibly an adopted look image
WriterRecords(handle) ==
    { [r EXCEPT !.tags = {StyleOf[handle]},
                !.allowed_actions.entries =
                    IF lk THEN [k \in DOMAIN @ |-> FALSE] ELSE @,
                !.promotion.locked = lk,
                !.assets.look_images = lo] :
      r \in SeededRecords(handle), lk \in BOOLEAN,
      lo \in { <<>>, << [media_gid |-> "gid://Media/1", adopted_at |-> 0] >> } }

InitWriters ==
    /\ products \in { f \in [Handles -> UNION { WriterRecords(h) : h \in Handles }] :
                        \A h \in Handles : f[h].handle = h }
    /\ decision = NoDecision
    /\ preflight = NoPreflight
    /\ stateFile = GoodFile
    /\ gateLog = {}
    /\ externalWrites = {}
    /\ clock = 1
    /\ lastRun = NoRun
    /\ prev = products
    /\ swatchJsonl = <<>>
    /\ swatchQueue = <<>>
    /\ manualQueue = <<>>
    /\ driftLog = <<>>
    /\ generated_at = 0

GateEntry(d) == [handle |-> d.handle, action |-> d.action, allowed |-> d.allowed]

\* one ShopifyClient mutation issued by `writer` for the product `handle`;
\* `action` is the permission that governs it
CatalogWrite(writer, handle, action, call) ==
    [writer |-> writer, handle |-> handle, action |-> action, call |-> call]

resolve_handle_from_state(cpi) ==
    CHOOSE handle \in DOMAIN products : products[handle].cpi = cpi

\* the mutations metafields_writer.main issues for one CPI of its scope
MetafieldWrites(cpi, dry_run, manifest, prod_map, existing_files, look_set) ==
    LET handle == resolve_handle_from_state(cpi)
        gate == can(handle, "metafield_write")
        look_images == products[handle].assets.look_images
    IN  IF ~gate.allowed \/ cpi \notin prod_map THEN {}
        ELSE (IF cpi \in manifest /\ cpi \notin existing_files /\ ~dry_run
              THEN { CatalogWrite("metafields_writer", handle, "metafield_write",
                                  "upload_file_from_path") }
              ELSE {})
             \cup
             (IF cpi \in manifest /\ ~dry_run
              THEN { CatalogWrite("metafields_writer", handle, "metafield_write",
                                  "set_product_metafield:swatch_image") }
              ELSE {})
             \cup
             (IF /\ look_images # <<>>
                 /\ products[handle].preflight.status = "GO"
                 /\ Truthy(look_images[1].media_gid)
                 /\ cpi \notin look_set
                 /\ ~dry_run
              THEN { CatalogWrite("metafields_writer", handle, "metafield_write",
                                  "set_product_metafield:look_image") }
              ELSE {})

\* metafields_writer.main(capsule, dry_run, cpis=target_cpis): manifest holds the
\* CPIs with a swatch row, prod_map the mapped CPIs, existing_files the CPIs
\* whose file is already staged, look_set those whose look_image is already set
MetafieldsWriter(target_cpis, dry_run, manifest, prod_map, existing_files, look_set) ==
    /\ clock <= MaxRuns
    /\ gateLog' = gateLog \cup
          { GateEntry(can(resolve_handle_from_state(cpi), "metafield_write")) :
            cpi \in target_cpis }
    /\ externalWrites' = externalWrites \cup
          UNION { MetafieldWrites(cpi, dry_run, manifest, prod_map,
                                  existing_files, look_set) : cpi \in target_cpis }
    /\ clock' = clock + 1
    /\ lastRun' = [op |-> "metafields_writer"]
    /\ UNCHANGED <<stateFile, preflight, products, decision, prev,
                   swatchJsonl, swatchQueue, manualQueue, driftLog, generated_at>>

\* size_guide_writer.main(capsule, from_csv, dry_run): products_to_process are
\* the Shopify products selected by the CSV and the product map; typed are
\* those with a productType that has a size-guide page
SizeGuideWriter(products_to_process, typed, dry_run) ==
    /\ clock <= MaxRuns
    /\ externalWrites' = externalWrites \cup
          { CatalogWrite("size_guide_writer", handle, "size_guide_write",
                         "set_product_metafield:size_guide_page") :
            handle \in { h \in products_to_process \cap typed : ~dry_run } }
    /\ clock' = clock + 1
    /\ lastRun' = [op |-> "size_guide_writer"]
    /\ UNCHANGED <<stateFile, preflight, products, decision, gateLog, prev,
                   swatchJsonl, swatchQueue, manualQueue, driftLog, generated_at>>

\* { style_tag: [handle, ...] } of the products whose collection_write is true
load_authorized_styles_from_state ==
    LET authorizing(style) ==
            { h \in DOMAIN products :
                /\ products[h].allowed_actions.is_dict
                /\ Get(products[h].allowed_actions.entries, "collection_write")
                /\ style \in products[h].tags }
        styles == UNION { products[h].tags : h \in DOMAIN products }
    IN  [style \in { t \in styles : authorizing(t) # {} } |-> authorizing(style)]

\* smart_collections.main(capsule, source_csv, dry_run): styles_to_create are the
\* style tags of the CSV, existing_titles the collections already on Shopify
SmartCollections(styles_to_create, existing_titles, dry_run) ==
    /\ clock <= MaxRuns
    /\ styles_to_create # {}
    /\ LET authorized_style_map == load_authorized_styles_from_state
       IN  externalWrites' = externalWrites \cup
              { CatalogWrite("smart_collections", w[2], "collection_write",
                             "create_smart_collection:" \o w[1]) :
                w \in { x \in (DOMAIN authorized_style_map) \X Handles :
                          /\ x[2] \in authorized_style_map[x[1]]
                          /\ x[1] \notin existing_titles
                          /\ ~dry_run } }
    /\ clock' = clock + 1
    /\ lastRun' = [op |-> "smart_collections"]
    /\ UNCHANGED <<stateFile, preflight, products, decision, gateLog, prev,
                   swatchJsonl, swatchQueue, manualQueue, driftLog, generated_at>>

Styles == { StyleOf[h] : h \in Handles }

NextWriters ==
    \/ \E target_cpis \in (SUBSET Cpis) \ {{}}, dry_run \in BOOLEAN,
          manifest \in SUBSET Cpis, prod_map \in SUBSET Cpis,
          existing_files \in SUBSET Cpis, look_set \in SUBSET Cpis :
            MetafieldsWriter(target_cpis, dry_run, manifest, prod_map,
                             existing_files, look_set)
    \/ \E products_to_process \in SUBSET Handles, typed \in SUBSET Handles,
          dry_run \in BOOLEAN :
            SizeGuideWriter(products_to_process, typed, dry_run)
    \/ \E styles_to_create \in SUBSET Styles, existing_titles \in SUBSET Styles,
          dry_run \in BOOLEAN :
            SmartCollections(styles_to_create, existing_titles, dry_run)

SpecWriters == InitWriters /\ [][NextWriters]_vars

\* C4: every catalog write a writer has issued for a product was preceded by a
\* StateGate.can call for that product's handle and the governing action that
\* returned allowed = true.
C4_WritesAreGated ==
    \A w \in externalWrites :
        [handle |-> w.handle, action |-> w.action, allowed |-> TRUE] \in gateLog

----------------------------------------------------------------------------
(* State mutators *)

\* key order of state["products"]
HandleOrder == << "A", "B" >>

\* documents a mutator may load: the seeded records, and seeded records with one
\* operator-owned field set by hand (a locked product, a wholesale product
\* staged SKIP or marked ineligible, a manually accepted anomaly) or with the
\* allowed_actions of a legacy file (no static permissions)
MutatorRecords(handle) ==
    LET go == seed_state(PreflightProduct(handle, <<"GO", "IMAGE_READY">>))
        nogo == seed_state(PreflightProduct(handle, <<"NO-GO", "IMAGE_INCOMPLETE">>))
        skip == seed_state(PreflightProduct(handle, <<"SKIP", "N/A">>))
    IN  SeededRecords(handle) \cup
        { [go EXCEPT !.promotion.locked = TRUE],
          [skip EXCEPT !.promotion.stage = "SKIP"],
          [skip EXCEPT !.import.eligible = FALSE],
          [nogo EXCEPT !.import.anomaly_accepted = TRUE],
          [go EXCEPT !.allowed_actions.entries =
              [k \in {"metafield_write", "image_upsert", "include_in_import_csv"}
                  |-> @[k]]] }

InitMutators ==
    /\ products \in { f \in [Handles -> UNION { MutatorRecords(h) : h \in Handles }] :
                        \A h \in Handles : f[h].handle = h }
    /\ decision = NoDecision
    /\ preflight = NoPreflight
    /\ stateFile = GoodFile
    /\ gateLog = {}
    /\ externalWrites = {}
    /\ clock = 1
    /\ lastRun = NoRun
    /\ prev = products
    /\ swatchJsonl = <<>>
    /\ swatchQueue = <<>>
    /\ manualQueue = <<>>
    /\ driftLog = <<>>
    /\ generated_at = 0

(* api/promote_static_allowed_actions.py *)

is_skip_product(product) == product.promotion.stage = "SKIP"

\* product.setdefault("allowed_actions", {})
SetDefaultMap(product) ==
    IF product.allowed_actions.is_dict THEN product.allowed_actions.entries ELSE EmptyMap

promote_actions_clobbers(product, now) ==
    LET allowed == SetDefaultMap(product)
        changed == ~Get(allowed, "collection_write") \/ ~Get(allowed, "size_guide_write")
        promoted == [k \in {"collection_write", "size_guide_write"} |-> TRUE]
    IN  [product EXCEPT
            !.allowed_actions = [is_dict |-> TRUE, entries |-> promoted],
            !.audit = IF changed THEN Append(@, [script |-> "promote_static_allowed_actions",
                                                  promoted_at |-> now])
                      ELSE @]

promote_actions_always_audits(product, now) ==
    LET allowed == SetDefaultMap(product)
        promoted == Put(Put(allowed, "collection_write", TRUE), "size_guide_write", TRUE)
    IN  [product EXCEPT
            !.allowed_actions = [is_dict |-> TRUE, entries |-> promoted],
            !.audit = Append(@, [script |-> "promote_static_allowed_actions",
                                 promoted_at |-> now])]

\* the product after promote_actions(product) at time now
promote_actions(product, now) ==
    LET allowed == SetDefaultMap(product)
        changed == ~Get(allowed, "collection_write") \/ ~Get(allowed, "size_guide_write")
        promoted == Put(Put(allowed, "collection_write", TRUE), "size_guide_write", TRUE)
    IN  [product EXCEPT
            !.allowed_actions = [is_dict |-> TRUE, entries |-> promoted],
            !.audit = IF changed THEN Append(@, [script |-> "promote_static_allowed_actions",
                                                  promoted_at |-> now])
                      ELSE @]

\* promote_static_allowed_actions.main(capsule)
PromoteStaticActions ==
    /\ Loads("promote_static_allowed_actions")
    /\ clock <= MaxRuns
    /\ products' = [h \in Handles |->
                      IF is_skip_product(products[h]) THEN products[h]
                      ELSE promote_actions(products[h], clock)]
    /\ prev' = products
    /\ lastRun' = [op |-> "promote_static_allowed_actions"]
    /\ clock' = clock + 1
    /\ UNCHANGED <<stateFile, preflight, decision, gateLog, externalWrites,
                   swatchJsonl, swatchQueue, manualQueue, driftLog, generated_at>>

(* api/register_created_swatches.py *)

\* cpi.split("-")
CpiParts == [c \in Cpis |->
               IF c = "1008-000182" THEN << "1008", "000182" >>
                                    ELSE << "2040", "000517" >>]

\* files that may lie in the swatch directory: name, lower-cased tokens of the
\* stem split at "_", " " and "-", and whether the capsule code occurs in the name
SwatchFilePool ==
    { [name |-> "S226_1008_000182_swatch.jpg",
       tokens |-> {"s226", "1008", "000182", "swatch"}, has_capsule |-> TRUE],
      [name |-> "S226-1008-000182-swatch-v2.jpg",
       tokens |-> {"s226", "1008", "000182", "swatch", "v2"}, has_capsule |-> TRUE],
      [name |-> "S226_2040_000517_swatch.jpg",
       tokens |-> {"s226", "2040", "000517", "swatch"}, has_capsule |-> TRUE],
      [name |-> "S126_2040_000517_swatch.jpg",
       tokens |-> {"s126", "2040", "000517", "swatch"}, has_capsule |-> FALSE] }

NoFile == [name |-> None, tokens |-> {}, has_capsule |-> FALSE]

candidates(swatch_dir, cpi) ==
    { p \in swatch_dir :
        /\ p.has_capsule
        /\ CpiParts[cpi][1] \in p.tokens
        /\ CpiParts[cpi][2] \in p.tokens }

find_swatch_file_first(swatch_dir, cpi) ==
    IF candidates(swatch_dir, cpi) # {}
    THEN CHOOSE p \in candidates(swatch_dir, cpi) : TRUE
    ELSE NoFile

find_swatch_file(swatch_dir, cpi) ==
    IF Cardinality(candidates(swatch_dir, cpi)) = 1
    THEN CHOOSE p \in candidates(swatch_dir, cpi) : TRUE
    ELSE NoFile

\* whether main adopts a swatch for this product
Registers(product, swatch_dir, target_cpis) ==
    /\ Truthy(product.cpi)
    /\ product.cpi \in target_cpis
    /\ find_swatch_file(swatch_dir, product.cpi) # NoFile
    /\ find_swatch_file(swatch_dir, product.cpi).has_capsule

\* the product after the loop body of main
RegisterRecord(product, swatch_dir, target_cpis, now) ==
    IF ~Registers(product, swatch_dir, target_cpis) THEN product
    ELSE [product EXCEPT
            !.assets.swatch =
                [present |-> TRUE,
                 file_path |-> find_swatch_file(swatch_dir, product.cpi).name,
                 registered_at |-> now],
            !.allowed_actions =
                [is_dict |-> TRUE,
                 entries |-> Put(Put(SetDefaultMap(product), "image_upsert", TRUE),
                                 "metafield_write", TRUE)]]

\* tuple(r.get(k) for k in key_fields)
DedupeKey(r, key_fields) == [k \in key_fields |-> r[k]]

\* the file after append_dedupe_jsonl: `existing` followed by the rows of
\* `records` whose key is new
append_dedupe_jsonl(existing, records, dedupe_keys) ==
    LET fresh(i) ==
            /\ \A j \in 1..Len(existing) :
                  DedupeKey(existing[j], dedupe_keys) # DedupeKey(records[i], dedupe_keys)
            /\ \A j \in 1..(i - 1) :
                  DedupeKey(records[j], dedupe_keys) # DedupeKey(records[i], dedupe_keys)
        F[i \in 0..Len(records)] ==
            IF i = 0 THEN existing
            ELSE IF fresh(i) THEN Append(F[i - 1], records[i]) ELSE F[i - 1]
    IN  F[Len(records)]

\* args.cpis or the CPIs of the document
TargetCpis(cpis) ==
    IF cpis # {} THEN cpis ELSE { products[h].cpi : h \in Handles }

\* the CPIs of the "[DEBUG] Multiple swatch candidates found" lines a run prints:
\* one per call of find_swatch_file that sees more than one candidate
CollisionNotes(swatch_dir, cpis) ==
    LET collided ==
            SelectSeq(HandleOrder,
                      LAMBDA h : /\ Truthy(products[h].cpi)
                                 /\ products[h].cpi \in TargetCpis(cpis)
                                 /\ Cardinality(candidates(swatch_dir, products[h].cpi)) > 1)
    IN  [i \in 1..Len(collided) |-> products[collided[i]].cpi]

\* register_created_swatches.main with --swatch-dir holding the files swatch_dir
\* and --cpis cpis (empty: every CPI of the document)
AdoptLocalAsset(swatch_dir, cpis) ==
    /\ Loads("register_created_swatches")
    /\ clock <= MaxRuns
    /\ LET target_cpis == TargetCpis(cpis)
           registered ==
               SelectSeq(HandleOrder,
                         LAMBDA h : Registers(products[h], swatch_dir, target_cpis))
           queue_updates ==
               [i \in 1..Len(registered) |->
                   [cpi |-> products[registered[i]].cpi,
                    action |-> "SWATCH_CREATED",
                    file_path |->
                        find_swatch_file(swatch_dir, products[registered[i]].cpi).name,
                    timestamp |-> clock,
                    resolved |-> FALSE]]
       IN  /\ products' = [h \in Handles |->
                             RegisterRecord(products[h], swatch_dir, target_cpis, clock)]
           /\ swatchJsonl' = append_dedupe_jsonl(swatchJsonl, queue_updates, {"cpi", "action"})
    /\ prev' = products
    /\ lastRun' = [op |-> "register_created_swatches", swatch_dir |-> swatch_dir,
                   cpis |-> cpis, stdout |-> CollisionNotes(swatch_dir, cpis)]
    /\ clock' = clock + 1
    /\ UNCHANGED <<stateFile, preflight, decision, gateLog, externalWrites,
                   swatchQueue, manualQueue, driftLog, generated_at>>

(* api/reconcile_capsule_assets.py *)

\* hero_candidates lists an inspection row may carry (media gids)
HeroCandidateLists ==
    { <<>>, << "gid://MediaImage/1" >>, << "gid://MediaImage/1", "gid://MediaImage/2" >> }

\* inspect_by_cpi: the inspection rows of an inspect_images file
InspectFiles ==
    UNION { [cs -> HeroCandidateLists] : cs \in SUBSET Cpis }

\* whether the loop body of main processes this product
Inspected(product, inspect_by_cpi) ==
    Truthy(product.cpi) /\ product.cpi \in DOMAIN inspect_by_cpi

baseline(product) ==
    [local_has_hero |-> product.assets.look_images # <<>>,
     local_has_swatch |-> product.assets.swatch_image]

\* the product after the hero adoption of main is applied to it
ReconcileRecord(product, inspect_by_cpi, now) ==
    IF ~Inspected(product, inspect_by_cpi) THEN product
    ELSE LET hero_candidates == inspect_by_cpi[product.cpi] IN
         IF hero_candidates = <<>> THEN product
         ELSE [product EXCEPT
                 !.assets.look_images =
                     << [media_gid |-> hero_candidates[1], adopted_at |-> now] >>,
                 !.assets_provenance = "shopify",
                 !.preflight.image_status = "IMAGE_OK",
                 !.preflight.status = "GO",
                 !.allowed_actions =
                     [is_dict |-> TRUE,
                      entries |-> Put(SetDefaultMap(product), "metafield_write", TRUE)]]

dedupe_keeps_all(rows, key_fields) == rows

\* rows with the first occurrence of each key kept
dedupe(rows, key_fields) ==
    LET F[i \in 0..Len(rows)] ==
            IF i = 0 THEN <<>>
            ELSE IF \E j \in 1..(i - 1) :
                       DedupeKey(rows[j], key_fields) = DedupeKey(rows[i], key_fields)
                 THEN F[i - 1]
                 ELSE Append(F[i - 1], rows[i])
    IN  F[Len(rows)]

QueueRow(product, reason, now) ==
    [cpi |-> product.cpi, handle |-> product.handle, reason |-> reason,
     timestamp |-> now, resolved |-> FALSE, resolved_by |-> None, resolved_at |-> 0]

\* reconcile_capsule_assets.main(capsule) on the inspection file inspect_by_cpi
\* (unscoped run: the outputs are the capsule's own queue and drift files)
ReconcileCapsuleAssets(inspect_by_cpi) ==
    /\ Loads("reconcile_capsule_assets")
    /\ clock <= MaxRuns
    /\ LET processed(h) == Inspected(products[h], inspect_by_cpi)
           hero_candidates(h) == inspect_by_cpi[products[h].cpi]
           inspected == SelectSeq(HandleOrder, processed)
           no_swatch ==
               SelectSeq(inspected, LAMBDA h : ~baseline(products[h]).local_has_swatch)
           no_hero == SelectSeq(inspected, LAMBDA h : hero_candidates(h) = <<>>)
           drift_log ==
               [i \in 1..Len(inspected) |->
                   [cpi |-> products[inspected[i]].cpi,
                    handle |-> inspected[i],
                    baseline |-> baseline(products[inspected[i]]),
                    shopify_has_hero |-> hero_candidates(inspected[i]) # <<>>,
                    adopted |-> hero_candidates(inspected[i]) # <<>>,
                    timestamp |-> clock]]
           swatch_queue ==
               [i \in 1..Len(no_swatch) |->
                   QueueRow(products[no_swatch[i]], "SWATCH_MISSING_LOCALLY", clock)]
           manual_queue ==
               [i \in 1..Len(no_hero) |->
                   QueueRow(products[no_hero[i]], "NO_HERO_CANDIDATE_IN_SHOPIFY", clock)]
       IN  /\ products' = [h \in Handles |->
                             ReconcileRecord(products[h], inspect_by_cpi, clock)]
           /\ driftLog' = dedupe(driftLog \o drift_log, {"cpi", "timestamp"})
           /\ swatchQueue' = dedupe(swatchQueue \o swatch_queue, {"cpi", "reason"})
           /\ manualQueue' = dedupe(manualQueue \o manual_queue, {"cpi", "reason"})
           /\ lastRun' = [op |-> "reconcile_capsule_assets",
                          inspect_by_cpi |-> inspect_by_cpi,
                          swatch_actions |-> swatch_queue]
    /\ prev' = products
    /\ clock' = clock + 1
    /\ UNCHANGED <<stateFile, preflight, decision, gateLog, externalWrites, swatchJsonl, generated_at>>

(* api/update_action_queues_from_metafields_results.py *)

mark_resolved_restamps(actions, cpi_set, now_iso) ==
    [i \in 1..Len(actions) |->
        IF actions[i].cpi \in cpi_set
        THEN [actions[i] EXCEPT !.resolved = TRUE,
                                !.resolved_by = "metafields_writer",
                                !.resolved_at = now_iso]
        ELSE actions[i]]

\* the list after mark_resolved(actions, cpi_set, now_iso)
mark_resolved(actions, cpi_set, now_iso) ==
    [i \in 1..Len(actions) |->
        IF actions[i].cpi \in cpi_set /\ ~actions[i].resolved
        THEN [actions[i] EXCEPT !.resolved = TRUE,
                                !.resolved_by = "metafields_writer",
                                !.resolved_at = now_iso]
        ELSE actions[i]]

deduplicate_actions_by_cpi(actions) ==
    LET F[i \in 0..Len(actions)] ==
            IF i = 0 THEN <<>>
            ELSE IF \E j \in 1..(i - 1) : actions[j].cpi = actions[i].cpi
                 THEN F[i - 1]
                 ELSE Append(F[i - 1], actions[i])
    IN  F[Len(actions)]

\* the first action of each (cpi, resolved) key, in list order
deduplicate_actions(actions) ==
    LET key(a) == << a.cpi, a.resolved >>
        F[i \in 0..Len(actions)] ==
            IF i = 0 THEN <<>>
            ELSE IF \E j \in 1..(i - 1) : key(actions[j]) = key(actions[i])
                 THEN F[i - 1]
                 ELSE Append(F[i - 1], actions[i])
    IN  F[Len(actions)]

\* update_action_queues_from_metafields_results.main on a results file whose
\* WROTE / NOOP_ALREADY_SET records name the CPIs cpis_to_resolve
ResolveQueues(cpis_to_resolve) ==
    /\ clock <= MaxRuns
    /\ LET marked == mark_resolved(swatchQueue, cpis_to_resolve, clock)
       IN  /\ swatchQueue' = deduplicate_actions(marked)
           /\ lastRun' = [op |-> "update_action_queues_from_metafields_results",
                          cpis_to_resolve |-> cpis_to_resolve,
                          swatch_actions |-> swatchQueue,
                          marked |-> marked,
                          manual_review_actions |-> manualQueue]
    /\ manualQueue' = deduplicate_actions(manualQueue)
    /\ prev' = products
    /\ clock' = clock + 1
    /\ UNCHANGED <<stateFile, preflight, products, decision, gateLog, externalWrites,
                   swatchJsonl, driftLog, generated_at>>

(* api/sync_product_gids.py *)

\* product_map.json files: CPI -> product gid, for some of the CPIs
ProductMaps ==
    { [c \in cs |-> IF c = CpiOf["A"] THEN "gid://Product/1" ELSE "gid://Product/2"] :
      cs \in SUBSET Cpis }

\* sync_product_gids.main(capsule) with the manifest product_map
SyncExternalIds(product_map) ==
    /\ Loads("sync_product_gids")
    /\ clock <= MaxRuns
    /\ products' = [h \in Handles |->
                      IF Truthy(products[h].cpi) /\ products[h].cpi \in DOMAIN product_map
                      THEN [products[h] EXCEPT !.product_gid = product_map[products[h].cpi]]
                      ELSE products[h]]
    /\ prev' = products
    /\ lastRun' = [op |-> "sync_product_gids", product_map |-> product_map]
    /\ clock' = clock + 1
    /\ UNCHANGED <<stateFile, preflight, decision, gateLog, externalWrites,
                   swatchJsonl, swatchQueue, manualQueue, driftLog, generated_at>>

(* scripts/post_import_infer_state.py *)

\* InferRecord marking the record imported without the stage transition
InferRecord_stage_kept(handle_key, rec, combined_handles, anomaly_handles, include_anomalies, now) ==
    LET handle == IF Truthy(rec.handle) THEN rec.handle ELSE handle_key
        imported_handles ==
            combined_handles \cup (IF include_anomalies THEN anomaly_handles ELSE {})
    IN  IF rec.import.eligible = FALSE \/ handle \notin imported_handles
           \/ rec.import.imported
        THEN rec
        ELSE [rec EXCEPT !.import.imported = TRUE,
                         !.import.imported_at = now,
                         !.import.import_source =
                             IF handle \in combined_handles THEN "combined_csv"
                             ELSE "anomalies_csv"]

\* InferRecord without the eligibility gate (Rule 1)
InferRecord_ineligible_imported(handle_key, rec, combined_handles, anomaly_handles, include_anomalies, now) ==
    LET handle == IF Truthy(rec.handle) THEN rec.handle ELSE handle_key
        imported_handles ==
            combined_handles \cup (IF include_anomalies THEN anomaly_handles ELSE {})
    IN  IF handle \notin imported_handles \/ rec.import.imported THEN rec
        ELSE [rec EXCEPT !.import.imported = TRUE,
                         !.import.imported_at = now,
                         !.import.import_source = "combined_csv",
                         !.promotion.stage = "IMPORTED",
                         !.promotion.last_transition_at = now]

\* InferRecord without the idempotency check (Rule 4)
InferRecord_reimported(handle_key, rec, combined_handles, anomaly_handles, include_anomalies, now) ==
    LET handle == IF Truthy(rec.handle) THEN rec.handle ELSE handle_key
        imported_handles ==
            combined_handles \cup (IF include_anomalies THEN anomaly_handles ELSE {})
    IN  IF rec.import.eligible = FALSE \/ handle \notin imported_handles THEN rec
        ELSE [rec EXCEPT !.import.imported = TRUE,
                         !.import.imported_at = now,
                         !.import.import_source =
                             IF handle \in combined_handles THEN "combined_csv"
                             ELSE "anomalies_csv",
                         !.promotion.stage = "IMPORTED",
                         !.promotion.last_transition_at = now]

\* InferRecord accepting the anomaly of every record imported from the anomalies CSV
InferRecord_accepts_go(handle_key, rec, combined_handles, anomaly_handles, include_anomalies, now) ==
    LET handle == IF Truthy(rec.handle) THEN rec.handle ELSE handle_key
        imported_handles ==
            combined_handles \cup (IF include_anomalies THEN anomaly_handles ELSE {})
        source == IF handle \in combined_handles THEN "combined_csv" ELSE "anomalies_csv"
    IN  IF rec.import.eligible = FALSE \/ handle \notin imported_handles
           \/ rec.import.imported
        THEN rec
        ELSE [rec EXCEPT !.import.imported = TRUE,
                         !.import.imported_at = now,
                         !.import.import_source = source,
                         !.import.anomaly_accepted =
                             IF source = "anomalies_csv" THEN TRUE ELSE @,
                         !.promotion.stage = "IMPORTED",
                         !.promotion.last_transition_at = now]

\* the record after the loop body of main; anomaly_handles is the handle set of
\* the anomalies CSV as read (empty unless --include-anomalies)
InferRecord(handle_key, rec, combined_handles, anomaly_handles, include_anomalies, now) ==
    LET handle == IF Truthy(rec.handle) THEN rec.handle ELSE handle_key
        imported_handles ==
            combined_handles \cup (IF include_anomalies THEN anomaly_handles ELSE {})
        source ==
            IF handle \in combined_handles THEN "combined_csv"
            ELSE IF include_anomalies /\ handle \in anomaly_handles THEN "anomalies_csv"
            ELSE "combined_csv"
    IN  IF rec.import.eligible = FALSE THEN rec
        ELSE IF handle \notin imported_handles THEN rec
        ELSE IF rec.import.imported THEN rec
        ELSE [rec EXCEPT
                !.import.imported = TRUE,
                !.import.imported_at = now,
                !.import.import_source = source,
                !.import.anomaly_accepted =
                    IF source = "anomalies_csv" /\ rec.preflight.status = "NO-GO"
                    THEN TRUE
                    ELSE rec.import.anomaly_accepted,
                !.promotion.stage = "IMPORTED",
                !.promotion.last_transition_at = now]

\* post_import_infer_state.main with --combined-csv holding combined_handles,
\* --anomalies-csv holding anomalies_csv and the --include-anomalies flag
InferImportStage(combined_handles, anomalies_csv, include_anomalies) ==
    /\ Loads("post_import_infer_state")
    /\ clock <= MaxRuns
    /\ LET anomaly_handles == IF include_anomalies THEN anomalies_csv ELSE {}
       IN  products' = [h \in Handles |->
                          InferRecord(h, products[h], combined_handles, anomaly_handles,
                                      include_anomalies, clock)]
    /\ generated_at' = clock
    /\ prev' = products
    /\ lastRun' = [op |-> "post_import_infer_state",
                   combined_handles |-> combined_handles,
                   anomalies_csv |-> anomalies_csv,
                   include_anomalies |-> include_anomalies]
    /\ clock' = clock + 1
    /\ UNCHANGED <<stateFile, preflight, decision, gateLog, externalWrites,
                   swatchJsonl, swatchQueue, manualQueue, driftLog>>

\* handle sets an import CSV may hold
LedgerHandles == SUBSET Handles


Next ==
    \/ PromoteStaticActions
    \/ \E swatch_dir \in SUBSET SwatchFilePool, cpis \in { {}, {CpiOf["A"]} } :
          AdoptLocalAsset(swatch_dir, cpis)
    \/ \E inspect_by_cpi \in InspectFiles :
          ReconcileCapsuleAssets(inspect_by_cpi)
    \/ \E combined_handles \in LedgerHandles, anomalies_csv \in LedgerHandles,
          include_anomalies \in BOOLEAN :
          InferImportStage(combined_handles, anomalies_csv, include_anomalies)
    \/ \E product_map \in ProductMaps :
          SyncExternalIds(product_map)

Spec == InitMutators /\ [][Next]_vars

SpecPromote == InitMutators /\ [][PromoteStaticActions]_vars

NextAdopt ==
    \E swatch_dir \in SUBSET SwatchFilePool, cpis \in { {}, {CpiOf["A"]} } :
        AdoptLocalAsset(swatch_dir, cpis)

SpecAdopt == InitMutators /\ [][NextAdopt]_vars

\* a capsule whose document was just seeded and whose queue files do not exist
InitQueues ==
    /\ InitMutators
    /\ \A h \in Handles : products[h] \in SeededRecords(h)

NextQueues ==
    \/ \E swatch_dir \in SUBSET SwatchFilePool, cpis \in { {}, {CpiOf["A"]} } :
          AdoptLocalAsset(swatch_dir, cpis)
    \/ \E inspect_by_cpi \in InspectFiles :
          ReconcileCapsuleAssets(inspect_by_cpi)
    \/ \E cpis_to_resolve \in SUBSET Cpis :
          ResolveQueues(cpis_to_resolve)

SpecQueues == InitQueues /\ [][NextQueues]_vars

\* every mutator, run on a document that was just seeded
SpecSeeded == InitQueues /\ [][Next]_vars

\* every mutator on a seeded document, the swatch directory holding every
\* swatch file
NextImport ==
    \/ PromoteStaticActions
    \/ AdoptLocalAsset(SwatchFilePool, {})
    \/ \E inspect_by_cpi \in InspectFiles :
          ReconcileCapsuleAssets(inspect_by_cpi)
    \/ \E combined_handles \in LedgerHandles, anomalies_csv \in LedgerHandles,
          include_anomalies \in BOOLEAN :
          InferImportStage(combined_handles, anomalies_csv, include_anomalies)
    \/ \E product_map \in ProductMaps :
          SyncExternalIds(product_map)

SpecImport == InitQueues /\ [][NextImport]_vars

\* longest queue file the resolve pass is run on
MaxQueueLen == 3

\* rows a queue file may hold when the resolve pass loads it: written by an
\* earlier reconciliation, unresolved or already resolved by hand
LoadedRows(reason) ==
    { [QueueRow([cpi |-> CpiOf[h], handle |-> h], reason, 0) EXCEPT
          !.resolved = st.resolved, !.resolved_by = st.resolved_by] :
      h \in Handles,
      st \in { [resolved |-> FALSE, resolved_by |-> None],
               [resolved |-> TRUE, resolved_by |-> "operator"] } }

SeqsUpTo(S, n) == UNION { [1..k -> S] : k \in 0..n }

InitResolve ==
    /\ products = [h \in Handles |->
                      seed_state(PreflightProduct(h, <<"GO", "IMAGE_READY">>))]
    /\ decision = NoDecision
    /\ preflight = NoPreflight
    /\ stateFile = GoodFile
    /\ gateLog = {}
    /\ externalWrites = {}
    /\ clock = 1
    /\ lastRun = NoRun
    /\ prev = products
    /\ swatchJsonl = <<>>
    /\ swatchQueue \in SeqsUpTo(LoadedRows("SWATCH_MISSING_LOCALLY"), MaxQueueLen)
    /\ manualQueue \in
          LET row == CHOOSE r \in LoadedRows("NO_HERO_CANDIDATE_IN_SHOPIFY") :
                        r.handle = "A" /\ ~r.resolved
          IN  { <<>>, << row >>, << row, row >> }
    /\ driftLog = <<>>
    /\ generated_at = 0

NextResolve ==
    \E cpis_to_resolve \in SUBSET Cpis : ResolveQueues(cpis_to_resolve)

SpecResolve == InitResolve /\ [][NextResolve]_vars

\* before the report is written; the state document of an earlier seeding is
\* not read by the preflight
InitPreflight ==
    /\ products = [h \in Handles |->
                      seed_state(PreflightProduct(h, <<"GO", "IMAGE_READY">>))]
    /\ decision = NoDecision
    /\ preflight = NoPreflight
    /\ stateFile = GoodFile
    /\ gateLog = {}
    /\ externalWrites = {}
    /\ clock = 1
    /\ lastRun = NoRun
    /\ prev = products
    /\ swatchJsonl = <<>>
    /\ swatchQueue = <<>>
    /\ manualQueue = <<>>
    /\ driftLog = <<>>
    /\ generated_at = 0

NextPreflight ==
    \E handle \in Handles, group \in Groups : RunPreflight(handle, group)

SpecPreflight == InitPreflight /\ [][NextPreflight]_vars

\* any file the operations may find; the record map is the seeded one and is
\* only read when the file has a products object
InitLoad ==
    /\ stateFile \in StateFiles
    /\ products = [h \in Handles |->
                      seed_state(PreflightProduct(h, <<"GO", "IMAGE_READY">>))]
    /\ decision = NoDecision
    /\ preflight = NoPreflight
    /\ gateLog = {}
    /\ externalWrites = {}
    /\ clock = 1
    /\ lastRun = NoRun
    /\ prev = products
    /\ swatchJsonl = <<>>
    /\ swatchQueue = <<>>
    /\ manualQueue = <<>>
    /\ driftLog = <<>>
    /\ generated_at = 0

NextLoad ==
    \/ \E op \in Loaders : AbortedRun(op)
    \/ \E op \in Loaders : EmptyRun(op)
    \/ \E handle \in Handles : Can(handle, "metafield_write")
    \/ PromoteStaticActions
    \/ AdoptLocalAsset(SwatchFilePool, {})
    \/ \E inspect_by_cpi \in InspectFiles : ReconcileCapsuleAssets(inspect_by_cpi)
    \/ \E combined_handles \in LedgerHandles :
          InferImportStage(combined_handles, {}, FALSE)
    \/ \E product_map \in ProductMaps : SyncExternalIds(product_map)

SpecLoad == InitLoad /\ [][NextLoad]_vars

NextInfer ==
    \E combined_handles \in LedgerHandles, anomalies_csv \in LedgerHandles,
       include_anomalies \in BOOLEAN :
        InferImportStage(combined_handles, anomalies_csv, include_anomalies)

SpecInfer == InitMutators /\ [][NextInfer]_vars

----------------------------------------------------------------------------
(* Mutator claims *)

MutatorOps ==
    {"promote_static_allowed_actions", "register_created_swatches",
     "reconcile_capsule_assets", "post_import_infer_state", "sync_product_gids"}

Inferred == lastRun.op = "post_import_infer_state"

\* the handles the last inference run considered imported
ImportedLedger ==
    lastRun.combined_handles \cup
        (IF lastRun.include_anomalies THEN lastRun.anomalies_csv ELSE {})

\* C5: after a mutator run (PromoteStaticActions, AdoptLocalAsset,
\* ReconcileCapsuleAssets, InferImportStage) a record with promotion.locked =
\* true has no allowed_actions entry that is true.
C5_LockedDeniesAll ==
    lastRun.op \in MutatorOps =>
        \A h \in Handles :
            products[h].promotion.locked =>
                \A a \in DOMAIN products[h].allowed_actions.entries :
                    ~products[h].allowed_actions.entries[a]

\* C6: a mutator run leaves every record whose promotion.stage is SKIP exactly
\* as it loaded it: stage, allowed_actions, assets and import fields unchanged.
C6_SkipIsTerminal ==
    lastRun.op \in MutatorOps =>
        \A h \in Handles :
            prev[h].promotion.stage = "SKIP" => products[h] = prev[h]

\* C7: a mutator run never takes a record from IMPORTED back to PRE_FLIGHT, and
\* the only stage change a run makes is PRE_FLIGHT to IMPORTED, made by
\* InferImportStage.
C7_StageMonotonic ==
    lastRun.op \in MutatorOps =>
        \A h \in Handles :
            /\ prev[h].promotion.stage = "IMPORTED"
                  => products[h].promotion.stage # "PRE_FLIGHT"
            /\ products[h].promotion.stage # prev[h].promotion.stage
                  => /\ prev[h].promotion.stage = "PRE_FLIGHT"
                     /\ products[h].promotion.stage = "IMPORTED"
                     /\ Inferred

\* C8: an InferImportStage run leaves every record with import.eligible = false
\* unchanged, also when its handle is in the ledger; an eligible record not yet
\* imported becomes imported = true and stage IMPORTED exactly when its handle is
\* in the combined ledger or, with the anomalies opt-in set, in the anomalies
\* ledger (ledger {A, B} with A ineligible: only B is imported).
C8_IneligibleIgnored ==
    Inferred =>
        \A h \in Handles :
            /\ prev[h].import.eligible = FALSE => products[h] = prev[h]
            /\ (prev[h].import.eligible /\ ~prev[h].import.imported) =>
                  /\ products[h].import.imported <=> h \in ImportedLedger
                  /\ (products[h].promotion.stage = "IMPORTED"
                        /\ prev[h].promotion.stage # "IMPORTED") <=> h \in ImportedLedger
                  /\ (h \in lastRun.anomalies_csv \ lastRun.combined_handles
                        /\ ~lastRun.include_anomalies) => products[h] = prev[h]

\* the run had ledger {A, B} with A ineligible and B eligible, not yet imported
C8_Witness ==
    /\ Inferred
    /\ lastRun.combined_handles = {"A", "B"}
    /\ prev["A"].import.eligible = FALSE
    /\ prev["B"].import.eligible /\ ~prev["B"].import.imported
    /\ products["A"] = prev["A"]
    /\ products["B"].import.imported
    /\ products["B"].promotion.stage = "IMPORTED"

\* C9: an InferImportStage run leaves imported_at, import_source,
\* anomaly_accepted, promotion.stage and last_transition_at of every record that
\* was already imported unchanged, whatever the ledger holds.
C9_ImportedOnce ==
    Inferred =>
        \A h \in Handles :
            prev[h].import.imported =>
                /\ products[h].import = prev[h].import
                /\ products[h].promotion = prev[h].promotion

\* a record imported by an earlier run was in the ledger of a later run
C9_Witness ==
    /\ Inferred
    /\ \E h \in Handles :
          /\ h \in ImportedLedger
          /\ prev[h].import.imported
          /\ prev[h].import.imported_at < clock - 1
          /\ prev[h].import.import_source = "anomalies_csv"
          /\ h \in lastRun.combined_handles
          /\ products[h] = prev[h]

\* C10: an InferImportStage run turns import.anomaly_accepted to true only for a
\* record it imports from the anomalies ledger (handle in the anomalies ledger,
\* not in the combined ledger, opt-in set) whose preflight status before the run
\* was NO-GO.
C10_AnomalyAcceptance ==
    Inferred =>
        \A h \in Handles :
            (products[h].import.anomaly_accepted /\ ~prev[h].import.anomaly_accepted) =>
                /\ h \in lastRun.anomalies_csv
                /\ h \notin lastRun.combined_handles
                /\ lastRun.include_anomalies
                /\ prev[h].preflight.status = "NO-GO"
                /\ products[h].import.import_source = "anomalies_csv"

\* one run accepted the anomaly of a NO-GO record and imported a GO record from
\* the anomalies ledger without accepting anything for it
C10_Witness ==
    /\ Inferred
    /\ \E h \in Handles, g \in Handles :
          /\ products[h].import.anomaly_accepted /\ ~prev[h].import.anomaly_accepted
          /\ prev[h].preflight.status = "NO-GO"
          /\ products[g].import.import_source = "anomalies_csv"
          /\ ~prev[g].import.imported
          /\ prev[g].preflight.status = "GO"
          /\ ~products[g].import.anomaly_accepted

Promoted == lastRun.op = "promote_static_allowed_actions"

StaticActions == {"collection_write", "size_guide_write"}

\* whether promote_actions had a static permission to set on the loaded record
StaticChanged(h) ==
    \E k \in StaticActions : ~Get(SetDefaultMap(prev[h]), k)

\* C11: after a PromoteStaticActions run every record whose stage is not SKIP
\* has collection_write and size_guide_write true, gains an audit entry only
\* if one of the two values changed, and keeps every other allowed_actions
\* entry; a record whose stage is SKIP is unchanged.
C11_PromoteEffect ==
    Promoted =>
        \A h \in Handles :
            IF prev[h].promotion.stage = "SKIP"
            THEN products[h] = prev[h]
            ELSE /\ \A k \in StaticActions :
                       Get(products[h].allowed_actions.entries, k)
                 /\ \/ products[h].audit = prev[h].audit
                    \/ /\ StaticChanged(h)
                       /\ Len(products[h].audit) = Len(prev[h].audit) + 1
                       /\ SubSeq(products[h].audit, 1, Len(prev[h].audit)) = prev[h].audit
                 /\ \A k \in ActionVocabulary \ StaticActions :
                       /\ k \in DOMAIN products[h].allowed_actions.entries
                            <=> k \in DOMAIN SetDefaultMap(prev[h])
                       /\ Get(products[h].allowed_actions.entries, k)
                            = Get(SetDefaultMap(prev[h]), k)

\* a run that promoted a record without static permissions, next to a SKIP record
C11_Witness ==
    /\ Promoted
    /\ \E h \in Handles :
          /\ prev[h].promotion.stage # "SKIP"
          /\ StaticChanged(h)
          /\ products[h].audit # prev[h].audit
          /\ Get(products[h].allowed_actions.entries, "metafield_write")
    /\ \E g \in Handles : prev[g].promotion.stage = "SKIP"

\* C12: a PromoteStaticActions run that follows a PromoteStaticActions run
\* leaves the document identical (no permission, no audit entry changes).
C12_PromoteIdempotent ==
    [][(Promoted /\ lastRun'.op = "promote_static_allowed_actions")
          => products' = products]_vars

\* two runs in a row, the first of which promoted and audited a record
C12_Witness ==
    /\ Promoted
    /\ clock = 3
    /\ products = prev
    /\ \E h \in Handles : products[h].audit # <<>>

Registered == lastRun.op = "register_created_swatches"

\* the CPIs the last registration run was scoped to
RunScope ==
    IF lastRun.cpis # {} THEN lastRun.cpis ELSE { prev[h].cpi : h \in Handles }

\* the files of the last run's swatch directory that match the record
Matching(h) == candidates(lastRun.swatch_dir, prev[h].cpi)

\* whether the last run wrote a queue row for the CPI
QueuedByLastRun(cpi) ==
    \E i \in 1..Len(swatchJsonl) :
        swatchJsonl[i].cpi = cpi /\ swatchJsonl[i].timestamp = clock - 1

\* what the registration run did to record h: one match adopted, otherwise
\* nothing written or queued, and one collision line when several files match
AdoptOutcome(h) ==
    IF Cardinality(Matching(h)) = 1
    THEN /\ products[h].assets.swatch.present
         /\ products[h].assets.swatch.file_path \in { p.name : p \in Matching(h) }
         /\ Get(products[h].allowed_actions.entries, "image_upsert")
         /\ Get(products[h].allowed_actions.entries, "metafield_write")
    ELSE /\ products[h].assets = prev[h].assets
         /\ products[h].allowed_actions = prev[h].allowed_actions
         /\ ~QueuedByLastRun(prev[h].cpi)
         /\ Cardinality(Matching(h)) > 1 =>
               Cardinality({ i \in 1..Len(lastRun.stdout) :
                               lastRun.stdout[i] = prev[h].cpi }) = 1

\* C13 (as stated): after an AdoptLocalAsset run, every record with exactly one
\* matching inventory file has assets.swatch written and image_upsert and
\* metafield_write true; a record with no match or several matches keeps its
\* assets and allowed_actions, has nothing queued, and a several-match record
\* has one collision note.
C13_AdoptPerRecord ==
    Registered => \A h \in Handles : AdoptOutcome(h)

\* C13 (amended): the same, for the records whose CPI is in the scope of the
\* run (all CPIs of the document, or the CPIs named by --cpis).
C13_AdoptPerRecordInScope ==
    Registered => \A h \in Handles : prev[h].cpi \in RunScope => AdoptOutcome(h)

\* one run that adopted the single match of one record and skipped another
\* record for which two files matched
C13_Witness ==
    /\ Registered
    /\ \E h, g \in Handles :
          /\ prev[h].cpi \in RunScope /\ prev[g].cpi \in RunScope
          /\ Cardinality(Matching(h)) = 1
          /\ ~prev[h].assets.swatch.present
          /\ products[h].assets.swatch.present
          /\ QueuedByLastRun(prev[h].cpi)
          /\ Cardinality(Matching(g)) = 2
          /\ lastRun.stdout = << prev[g].cpi >>

Reconciled == lastRun.op = "reconcile_capsule_assets"

\* C14: after a mutator run, a record for which more than one candidate asset
\* was supplied (several matching swatch files, several remote hero
\* candidates) has none of them adopted into its assets, and the ambiguity is
\* surfaced (a collision note, a manual-review row).
C14_AmbiguityNeverResolved ==
    /\ Registered =>
          \A h \in Handles :
              (prev[h].cpi \in RunScope /\ Cardinality(Matching(h)) > 1) =>
                  /\ products[h].assets = prev[h].assets
                  /\ \E i \in 1..Len(lastRun.stdout) : lastRun.stdout[i] = prev[h].cpi
    /\ Reconciled =>
          \A h \in Handles :
              (/\ Inspected(prev[h], lastRun.inspect_by_cpi)
               /\ Len(lastRun.inspect_by_cpi[prev[h].cpi]) > 1) =>
                  /\ products[h].assets = prev[h].assets
                  /\ \E i \in 1..Len(manualQueue) : manualQueue[i].cpi = prev[h].cpi

\* no two unresolved rows of the queue share the dedupe key
UniqueUnresolved(queue, key_fields) ==
    \A i, j \in 1..Len(queue) :
        (/\ i < j
         /\ ~queue[i].resolved
         /\ ~queue[j].resolved)
            => DedupeKey(queue[i], key_fields) # DedupeKey(queue[j], key_fields)

QueuesUnique ==
    /\ UniqueUnresolved(swatchJsonl, {"cpi", "action"})
    /\ UniqueUnresolved(swatchQueue, {"cpi", "reason"})
    /\ UniqueUnresolved(manualQueue, {"cpi", "reason"})

IsPrefix(old, new) ==
    Len(old) <= Len(new) /\ SubSeq(new, 1, Len(old)) = old

\* a step of a mutator that appends to the queues keeps every row already there
AppendKeepsRows ==
    lastRun'.op \in {"register_created_swatches", "reconcile_capsule_assets"} =>
        /\ IsPrefix(swatchJsonl, swatchJsonl')
        /\ IsPrefix(swatchQueue, swatchQueue')
        /\ IsPrefix(manualQueue, manualQueue')

\* C15: starting from empty queues, after any sequence of AdoptLocalAsset,
\* ReconcileCapsuleAssets and resolve runs no queue holds two unresolved rows
\* with the same dedupe key ((cpi, action) or (cpi, reason)), and an append
\* never modifies or removes a row already in the queue.
C15_QueueUniqueness ==
    []QueuesUnique /\ [][AppendKeepsRows]_vars

\* a second reconciliation that found the same swatch missing again, with the
\* queue still holding only the row of the first run
C15_Witness ==
    /\ Reconciled
    /\ clock = 3
    /\ \E h \in Handles :
          /\ Inspected(prev[h], lastRun.inspect_by_cpi)
          /\ ~baseline(prev[h]).local_has_swatch
          /\ \E i \in 1..Len(swatchQueue) :
                swatchQueue[i].cpi = prev[h].cpi /\ swatchQueue[i].timestamp = 1
          /\ Cardinality({ i \in 1..Len(swatchQueue) :
                             swatchQueue[i].cpi = prev[h].cpi }) = 1

ResolveRan == lastRun.op = "update_action_queues_from_metafields_results"

\* C16: mark_resolved stamps each entry at most once: an unresolved entry whose
\* cpi is in the resolved set gets resolved = true, resolved_by and resolved_at;
\* an entry already resolved keeps its resolved_by and resolved_at in every
\* later run; an entry whose cpi is not in the resolved set is not changed.
C16_StampedOnce ==
    ResolveRan =>
        /\ Len(lastRun.marked) = Len(lastRun.swatch_actions)
        /\ \A i \in 1..Len(lastRun.swatch_actions) :
              LET loaded == lastRun.swatch_actions[i]
                  marked == lastRun.marked[i]
              IN  /\ (~loaded.resolved /\ loaded.cpi \in lastRun.cpis_to_resolve) =>
                        marked = [loaded EXCEPT !.resolved = TRUE,
                                                !.resolved_by = "metafields_writer",
                                                !.resolved_at = clock - 1]
                  /\ loaded.resolved => marked = loaded
                  /\ loaded.cpi \notin lastRun.cpis_to_resolve => marked = loaded

\* a second pass that met an entry stamped by the first pass, named again in
\* the resolved set, next to an entry it stamps itself
C16_Witness ==
    /\ ResolveRan
    /\ clock = 3
    /\ \E i, j \in 1..Len(lastRun.swatch_actions) :
          /\ lastRun.swatch_actions[i].resolved_by = "metafields_writer"
          /\ lastRun.swatch_actions[i].resolved_at = 1
          /\ lastRun.swatch_actions[i].cpi \in lastRun.cpis_to_resolve
          /\ lastRun.marked[i].resolved_at = 1
          /\ ~lastRun.swatch_actions[j].resolved
          /\ lastRun.marked[j].resolved_at = 2

ResolvedKey(a) == << a.cpi, a.resolved >>

ResolvedKeys(actions) == { ResolvedKey(actions[i]) : i \in 1..Len(actions) }

\* position of the first entry of the list with the key
FirstIndex(actions, key) ==
    CHOOSE i \in 1..Len(actions) :
        /\ ResolvedKey(actions[i]) = key
        /\ \A j \in 1..(i - 1) : ResolvedKey(actions[j]) # key

\* `out` is the collapse of `actions`: one entry per (cpi, resolved) pair of
\* the input, each the first input entry of its pair, in input order, and a
\* cpi with a resolved input entry keeps a resolved entry
Collapsed(actions, out) ==
    /\ \A i, j \in 1..Len(out) : i < j => ResolvedKey(out[i]) # ResolvedKey(out[j])
    /\ ResolvedKeys(out) = ResolvedKeys(actions)
    /\ \A i \in 1..Len(out) : out[i] = actions[FirstIndex(actions, ResolvedKey(out[i]))]
    /\ \A i, j \in 1..Len(out) :
          i < j => FirstIndex(actions, ResolvedKey(out[i]))
                     < FirstIndex(actions, ResolvedKey(out[j]))
    /\ \A i \in 1..Len(actions) :
          actions[i].resolved =>
              \E j \in 1..Len(out) : out[j].cpi = actions[i].cpi /\ out[j].resolved

C18_MutatorsIdempotent ==
    [][(/\ lastRun.op \in {"register_created_swatches", "reconcile_capsule_assets",
                           "post_import_infer_state", "sync_product_gids"}
        /\ lastRun' = lastRun)
          => (products' = products /\ generated_at' = generated_at)]_vars

Checked == { h \in Handles : preflight[h] # NoResult }

\* C19 (as stated): every product result has status GO when errors is empty
\* and NO-GO when errors is non-empty, whatever the number of warnings.
C19_DecisionTable ==
    \A h \in Checked :
        /\ preflight[h].errors = <<>> => preflight[h].status = "GO"
        /\ preflight[h].errors # <<>> => preflight[h].status = "NO-GO"

\* C19 (amended): a result with errors is NO-GO; a result without errors is GO,
\* unless the product is wholesale (WS Buy tag on its single parent row), whose
\* result is SKIP with no errors; the number of warnings plays no part.
C19_DecisionTableWithSkip ==
    /\ \A h \in Checked :
          /\ preflight[h].errors # <<>> => preflight[h].status = "NO-GO"
          /\ preflight[h].errors = <<>> => preflight[h].status \in {"GO", "SKIP"}
    /\ lastRun.op = "preflight_product" =>
          (preflight[lastRun.handle].status = "SKIP"
              <=> (lastRun.group.parent_rows = 1 /\ lastRun.group.ws_buy))

\* a report with a GO result that carries several warnings next to a NO-GO
\* result that carries an error
C19_Witness ==
    \E h, g \in Checked :
        /\ preflight[h].errors = <<>>
        /\ Len(preflight[h].warnings) >= 3
        /\ preflight[h].status = "GO"
        /\ preflight[g].errors # <<>>
        /\ preflight[g].warnings = <<>>
        /\ preflight[g].status = "NO-GO"

\* longest position plan examined
MaxPlanLen == 3

\* position plans: sequences of positions, up to one past the longest length
Plans == SeqsUpTo(1..(MaxPlanLen + 1), MaxPlanLen)

HasError(result, error) ==
    \E i \in 1..Len(result.errors) : result.errors[i] = error

\* C20: the position check passes a plan exactly when it is 1, 2, ..., n for
\* some n >= 1 ([1,2,3] passes; [1,3,4], [1,2,2], [2,3,4] fail); a failing plan
\* adds the error "Invalid image position plan" and gives image_status
\* IMAGE_INVALID and status NO-GO; the plan checked for a product is position 1
\* for the ghost followed by one position per non-ghost image.
C20_PositionPlan ==
    /\ \A plan \in Plans :
          valid_positions(plan) <=> (plan # <<>> /\ plan = [i \in 1..Len(plan) |-> i])
    /\ valid_positions(<< 1, 2, 3 >>)
    /\ ~valid_positions(<< 1, 3, 4 >>)
    /\ ~valid_positions(<< 1, 2, 2 >>)
    /\ ~valid_positions(<< 2, 3, 4 >>)
    /\ (lastRun.op = "preflight_product" /\ lastRun.group \in FullGroups) =>
          LET result == analysed(lastRun.handle, lastRun.group)
              non_ghost_count == lastRun.group.hero_count + lastRun.group.model_count
                                    + lastRun.group.editorial_count
          IN  /\ \A plan \in Plans :
                    LET out == check_positions(result, plan)
                    IN  IF valid_positions(plan)
                        THEN /\ ~HasError(out, "Invalid image position plan")
                             /\ out.image_status # "IMAGE_INVALID"
                        ELSE /\ HasError(out, "Invalid image position plan")
                             /\ out.image_status = "IMAGE_INVALID"
                             /\ out.status = "NO-GO"
              /\ lastRun.planned_positions = [i \in 1..(1 + non_ghost_count) |-> i]
              /\ preflight[lastRun.handle] = check_positions(result, lastRun.planned_positions)

\* a product with a ghost and two other images: the plan 1, 2, 3 passes
C20_Witness ==
    /\ lastRun.op = "preflight_product"
    /\ lastRun.group \in FullGroups
    /\ lastRun.planned_positions = << 1, 2, 3 >>
    /\ preflight[lastRun.handle].ghost_count = 1
    /\ preflight[lastRun.handle].image_status = "IMAGE_READY"
    /\ ~HasError(preflight[lastRun.handle], "Invalid image position plan")

\* groups that reach the image analysis of preflight_product
AnalysedGroups == FullGroups \cup ScenarioGroups

ImagesAnalysed ==
    lastRun.op = "preflight_product" /\ lastRun.group \in AnalysedGroups

LastResult == preflight[lastRun.handle]

NonGhostCount(r) == r.hero_count + r.model_count + r.editorial_count

\* the recommendation the priority table gives a result
PriorityTable(r) ==
    IF r.ghost_count = 0 THEN "Hold - ghost image required"
    ELSE IF HasError(r, "Invalid image position plan") THEN "Hold - investigate"
    ELSE IF NonGhostCount(r) = 0 THEN "Upload (minimal imagery)"
    ELSE IF r.status = "GO" THEN "Upload"
    ELSE "Hold - investigate"

\* C21: the client recommendation follows the priority table, first match
\* wins: missing ghost image, then invalid position plan, then ghost-only
\* imagery, then status GO, then hold; one ghost and one hero on a group of
\* three rows with no error gives plan [1,2], IMAGE_READY, GO and "Upload";
\* zero ghosts gives the error "Missing ghost image", NO-GO and the
\* ghost-required hold.
C21_RecommendationTable ==
    ImagesAnalysed =>
        /\ LastResult.client_recommendation = PriorityTable(LastResult)
        /\ \A plan \in { << 1, 3, 4 >>, << 1, 2, 2 >>, << 2, 3, 4 >> } :
              LET out == check_positions(analysed(lastRun.handle, lastRun.group), plan)
              IN  out.client_recommendation = PriorityTable(out)
        /\ lastRun.group \in ScenarioGroups =>
              /\ lastRun.planned_positions = << 1, 2 >>
              /\ LastResult.image_status = "IMAGE_READY"
              /\ LastResult.status = "GO"
              /\ LastResult.client_recommendation = "Upload"
        /\ lastRun.group.ghost_count = 0 =>
              /\ HasError(LastResult, "Missing ghost image")
              /\ LastResult.status = "NO-GO"
              /\ LastResult.client_recommendation = "Hold - ghost image required"

\* the report holds the result of the one-ghost one-hero product and the
\* result of a product without ghost image
C21_Witness ==
    /\ ImagesAnalysed
    /\ lastRun.group \in ScenarioGroups
    /\ LastResult.client_recommendation = "Upload"
    /\ \E h \in Checked :
          /\ preflight[h].errors = << "Missing ghost image" >>
          /\ preflight[h].client_recommendation = "Hold - ghost image required"

\* the last run raised while loading and wrote no file
FailedOnLoad ==
    /\ "raised" \in DOMAIN lastRun
    /\ lastRun.raised # None
    /\ lastRun.wrote = {}

Malformed ==
    /\ stateFile.exists
    /\ stateFile.schema_version # "1.0" \/ stateFile.products_kind # "dict"

\* no output of a mutator has been created or changed
NothingWritten ==
    /\ products = prev
    /\ swatchJsonl = <<>> /\ swatchQueue = <<>> /\ manualQueue = <<>> /\ driftLog = <<>>
    /\ generated_at = 0

\* C22: when the document's schema_version or its top-level products map is
\* missing or malformed, every operation that loads the document (the gate
\* and each mutator) fails with an error and writes nothing.
C22_SchemaCheckedOnLoad ==
    Malformed =>
        /\ lastRun.op # "none" => FailedOnLoad
        /\ decision = NoDecision
        /\ NothingWritten

\* C23: when the product-state file does not exist, every mutator run and the
\* gate constructor abort with FileNotFoundError before creating or modifying
\* any file (state document, action queue, drift log).
C23_MissingFileAborts ==
    ~stateFile.exists =>
        /\ lastRun.op # "none" =>
              (FailedOnLoad /\ lastRun.raised = "FileNotFoundError")
        /\ decision = NoDecision
        /\ NothingWritten

\* a reconciliation attempted without a state file
C23_Witness ==
    /\ ~stateFile.exists
    /\ lastRun.op = "reconcile_capsule_assets"
    /\ lastRun.raised = "FileNotFoundError"
    /\ lastRun.wrote = {}

PreflightRan == lastRun.op = "preflight_product"

\* C24: the structural rules apply in the order parent-row count, product_id
\* extraction, tracker lookup, WS-only flag: a product with zero or several
\* parent rows, an absent or malformed product_id, or a product_id missing
\* from the tracker is NO-GO even when it carries the WS-only tag, and the tag
\* yields SKIP only for a product that passed the three earlier rules.
C24_StructuralOrder ==
    PreflightRan =>
        LET group == lastRun.group
            structural == \/ group.parent_rows # 1
                          \/ group.product_id # "ok"
                          \/ ~group.in_master
        IN  /\ structural => LastResult.status = "NO-GO"
            /\ LastResult.status = "SKIP" <=> (group.ws_buy /\ ~structural)

\* the image_status the precedence gives a result whose plan is `plan`
Precedence(r, plan) ==
    IF plan = <<>> \/ plan # [i \in 1..Len(plan) |-> i] THEN "IMAGE_INVALID"
    ELSE IF r.ghost_count = 0 \/ r.total_images = 0 THEN "IMAGE_INCOMPLETE"
    ELSE IF NonGhostCount(r) = 0 THEN "IMAGE_MINIMAL"
    ELSE "IMAGE_READY"

\* C25: for a product that reaches image analysis, image_status is
\* IMAGE_INVALID if the position plan is invalid; else IMAGE_INCOMPLETE if
\* there is no ghost image or no image at all; else IMAGE_MINIMAL if there are
\* ghost images and no other image; else IMAGE_READY. More than one ghost
\* image only adds a warning and changes neither image_status nor status.
C25_ImageStatusPrecedence ==
    ImagesAnalysed =>
        /\ LastResult.image_status = Precedence(LastResult, lastRun.planned_positions)
        /\ \A plan \in { << >>, << 1 >>, << 1, 2 >>, << 1, 2, 2 >>, << 2, 3 >>, << 1, 3 >> } :
              LET out == check_positions(analysed(lastRun.handle, lastRun.group), plan)
              IN  out.image_status = Precedence(out, plan)
        /\ lastRun.group.ghost_count > 1 =>
              LET one == preflight_product(lastRun.handle,
                                           [lastRun.group EXCEPT !.ghost_count = 1])
              IN  /\ LastResult.image_status = one.image_status
                  /\ LastResult.status = one.status
                  /\ LastResult.errors = one.errors
                  /\ LastResult.warnings
                        = one.warnings \o << "Multiple ghost images found" >>

\* a product with two ghost images and nothing else is IMAGE_MINIMAL, with
\* the warning
C25_Witness ==
    /\ ImagesAnalysed
    /\ lastRun.group.ghost_count = 2
    /\ NonGhostCount(LastResult) = 0
    /\ LastResult.image_status = "IMAGE_MINIMAL"
    /\ "Multiple ghost images found" \in Range(LastResult.warnings)

\* C26: in every document reachable by seeding followed by mutator runs, each
\* record's preflight.image_status is one of IMAGE_READY, IMAGE_MINIMAL,
\* IMAGE_INCOMPLETE, IMAGE_INVALID and its preflight.status is one of GO,
\* NO-GO, SKIP.
C26_PreflightEnums ==
    \A h \in Handles :
        /\ products[h].preflight.image_status
              \in {"IMAGE_READY", "IMAGE_MINIMAL", "IMAGE_INCOMPLETE", "IMAGE_INVALID"}
        /\ products[h].preflight.status \in {"GO", "NO-GO", "SKIP"}

\* C27: a reconcile run queues SWATCH_MISSING_LOCALLY for a record only when
\* the record has no adopted swatch: a record whose assets.swatch was written
\* by an earlier register_created_swatches run gets no such entry.
C27_SwatchQueuedOnlyWhenMissing ==
    lastRun.op = "reconcile_capsule_assets" =>
        \A i \in 1..Len(lastRun.swatch_actions) :
            LET row == lastRun.swatch_actions[i]
            IN  row.reason = "SWATCH_MISSING_LOCALLY" =>
                    ~prev[row.handle].assets.swatch.present

\* C28: in every document reachable from a seeded document by mutator runs, a
\* record has import.imported = true if and only if its promotion.stage is
\* IMPORTED, and then imported_at and import_source are non-null.
C28_ImportedIffStage ==
    \A h \in Handles :
        /\ products[h].import.imported <=> products[h].promotion.stage = "IMPORTED"
        /\ products[h].import.imported =>
              /\ products[h].import.imported_at # 0
              /\ products[h].import.import_source # None

\* a record imported by one run, and another mutator run after it
C28_Witness ==
    /\ lastRun.op \in MutatorOps \ {"post_import_infer_state"}
    /\ \E h \in Handles :
          /\ products[h].import.imported
          /\ products[h].promotion.stage = "IMPORTED"
          /\ products[h].import.imported_at = 1
    /\ \E h \in Handles : ~products[h].import.imported

HoldRecommendations ==
    {"Hold - ghost image required", "Hold - investigate"}

\* C29: preflight_product never gives "Upload" or "Upload (minimal imagery)"
\* to a product whose status is NO-GO: every product with a non-empty errors
\* list gets a hold recommendation.
C29_NoUploadForNoGo ==
    \A h \in Checked :
        (preflight[h].status = "NO-GO" \/ preflight[h].errors # <<>>) =>
            preflight[h].client_recommendation \in HoldRecommendations

\* the record still carries the SKIP that preflight gave the WS Buy product
SkippedByPreflight(h) == products[h].preflight.status = "SKIP"

\* C30: a product that preflight classified SKIP (WS-only) is never
\* write-enabled: after seeding and any sequence of mutator runs its
\* promotion.stage is never IMPORTED and its allowed_actions.metafield_write,
\* image_upsert and include_in_import_csv are never true.
C30_SkipNeverWriteEnabled ==
    \A h \in Handles :
        SkippedByPreflight(h) =>
            /\ products[h].promotion.stage # "IMPORTED"
            /\ \A action \in {"metafield_write", "image_upsert", "include_in_import_csv"} :
                  ~Get(products[h].allowed_actions.entries, action)

====
